---- MODULE Spec2Model ----
(***************************************************************************)
(* ColumnArray (dbms/include/DB/Columns/ColumnArray.h): a column of array  *)
(* values kept as one nested column holding the elements of all rows and   *)
(* an offsets column holding, for every row, the cumulative element count. *)
(*                                                                         *)
(* Column objects, nested columns and offsets columns live in three heaps, *)
(* so that two ColumnArray objects can hold the same offsets handle and a  *)
(* returned column can be told from the column it was computed from.       *)
(***************************************************************************)
EXTENDS Integers, Sequences, FiniteSets, TLC

VARIABLES
    columns,  \* ColumnArray objects: id -> [data |-> nested id, offsets |-> offsets id]
    datas,    \* nested columns: id -> [kind, elems, under]
    offs,     \* offsets columns (ColumnVector<Offset_t>): id -> sequence of offsets
    allocated,\* the offsets columns whose storage has been allocated (by a push_back)
    thrown,   \* whether some call so far ended by throwing an exception
    arena,    \* the Arena: what the last serializeValueIntoArena wrote and returned
    last      \* the last call: [op, col, arg, status, ret]

vars == <<columns, datas, offs, allocated, thrown, arena, last>>

----------------------------------------------------------------------------
(* Bounds of the model. *)

\* Rows a column may hold before the model stops appending to it.
MaxRows == 3
\* Elements a nested column may hold before the model stops appending to it.
MaxNested == 3
\* Longest Array passed to insert.
MaxRowLen == 2
\* Longest byte buffer passed to insertData.
MaxDataLen == 4
\* sizeOfField() of the fixed-width nested column, in bytes.
FieldSize == 2
\* Largest size passed to cloneResized.
MaxCloneSize == 3
\* Longest row of the columns compared by compareAt.
MaxCmpLen == 3
\* Rows of the columns drawn as inputs of the read-only operations.
MaxInRows == 2
\* Column objects alive at a time.
MaxColumns == 4

\* sizeof(size_t): the width of the count field written by serializeValueIntoArena.
SizeofSizeT == 8

\* Element values of a fixed-width nested column used as inputs.
Values == {1, 2}
\* Element values of a string nested column used as inputs (sequences of chars).
StrValues == {<<>>, <<97>>}
\* The byte buffers passed to insertData: one of each length, its bytes all different.
Buffers == {[i \in 1..l |-> i] : l \in 0..MaxDataLen}
\* Element values of the columns compared by compareAt.
CmpValues == {1, 2, 3}
CmpStrValues == {<<>>, <<97>>, <<98>>}
\* The value of a constant nested column.
ConstValue == {1}
\* Values a read of offsets.back() on an empty offsets column may yield.
Garbage == {0, 1}

Kinds == {"Fixed", "String"}

ValuesOf(kind) ==
    IF kind = "Fixed" THEN Values ELSE IF kind = "String" THEN StrValues ELSE ConstValue

\* All sequences over S of length at most n.
SeqsUpTo(S, n) == UNION {[1..l -> S] : l \in 0..n}

Min(a, b) == IF a < b THEN a ELSE b

----------------------------------------------------------------------------
(* Byte encodings (native little-endian integers). *)

RECURSIVE ToBytes(_, _)
ToBytes(v, n) == IF n = 0 THEN <<>> ELSE <<v % 256>> \o ToBytes(v \div 256, n - 1)

RECURSIVE FromBytes(_)
FromBytes(b) == IF b = <<>> THEN 0 ELSE Head(b) + 256 * FromBytes(Tail(b))

RECURSIVE Pow256(_)
Pow256(n) == IF n = 0 THEN 1 ELSE 256 * Pow256(n - 1)

----------------------------------------------------------------------------
(* The nested column, as far as ColumnArray uses it (IColumn interface of  *)
(* ColumnVector<T> for kind "Fixed", ColumnString for kind "String",       *)
(* ColumnConst for kind "Const").  elems are the elements in order; under  *)
(* counts the elements popped from an already empty column, after which    *)
(* its size_t size has wrapped around.                                     *)

EmptyNested(kind) == [kind |-> kind, elems |-> <<>>, under |-> 0]

isFixed(d) == d.kind = "Fixed"

sizeOfField(d) == FieldSize

\* size() of the nested column; a negative value -k stands for the wrapped 2^64 - k.
NestedSize(d) == Len(d.elems) - d.under

\* IColumn::insert(const Field &): a ColumnVector<T> keeps the low sizeof(T) bytes.
NestedInsert(d, v) ==
    [d EXCEPT !.elems = Append(@, IF d.kind = "Fixed" THEN v % Pow256(FieldSize) ELSE v)]

\* IColumn::insertData(pos, length) of a fixed column: reads one T at pos.
NestedInsertData(d, bytes) == [d EXCEPT !.elems = Append(@, FromBytes(bytes))]

\* IColumn::popBack(n): shrinks by n without a check.
NestedPopBack(d, n) ==
    IF n <= Len(d.elems) /\ d.under = 0
    THEN [d EXCEPT !.elems = SubSeq(@, 1, Len(@) - n)]
    ELSE [d EXCEPT !.elems = <<>>, !.under = d.under + n - Len(d.elems)]

\* IColumn::insertRangeFrom(src, start, length): throws when the range is out of bound.
NestedRangeOk(s, start, length) == start + length <= Len(s.elems)

NestedInsertRangeFrom(d, s, start, length) ==
    [d EXCEPT !.elems = @ \o SubSeq(s.elems, start + 1, start + length)]

\* IColumn::cloneEmpty().
NestedCloneEmpty(d) == EmptyNested(d.kind)

\* IColumn::isConst().
isConst(d) == d.kind = "Const"

\* IColumn::convertToFullColumnIfConst() of a constant column: the materialized column.
NestedConvertToFull(d) == [d EXCEPT !.kind = "Fixed"]

\* IColumn::serializeValueIntoArena(n, arena, begin): the bytes appended to the arena.
NestedSerialize(d, n) ==
    IF d.kind = "Fixed"
    THEN ToBytes(d.elems[n + 1], FieldSize)
    ELSE ToBytes(Len(d.elems[n + 1]) + 1, SizeofSizeT) \o d.elems[n + 1] \o <<0>>

\* IColumn::deserializeAndInsertFromArena(pos): the column and the position after it.
NestedDeserialize(d, buf, pos) ==
    IF d.kind = "Fixed"
    THEN [d   |-> [d EXCEPT !.elems = Append(@, FromBytes(SubSeq(buf, pos + 1, pos + FieldSize)))],
          pos |-> pos + FieldSize]
    ELSE LET string_size == FromBytes(SubSeq(buf, pos + 1, pos + SizeofSizeT))
             from == pos + SizeofSizeT
         IN  [d   |-> [d EXCEPT !.elems = Append(@, SubSeq(buf, from + 1, from + string_size - 1))],
              pos |-> from + string_size]

\* strcmp of two zero-terminated strings: the difference at the first differing char.
RECURSIVE StrCmp(_, _)
StrCmp(a, b) ==
    LET x == IF a = <<>> THEN 0 ELSE Head(a)
        y == IF b = <<>> THEN 0 ELSE Head(b)
    IN  IF x # y THEN x - y
        ELSE IF x = 0 THEN 0
        ELSE StrCmp(Tail(a), Tail(b))

\* IColumn::compareAt(n, m, rhs, nan_direction_hint) of the nested column.
NestedCompareAt(d, n, m, rhs, hint) ==
    LET a == d.elems[n + 1]
        b == rhs.elems[m + 1]
    IN  IF d.kind = "String" THEN StrCmp(a, b)
        ELSE IF a > b THEN 1 ELSE IF a < b THEN -1 ELSE 0

----------------------------------------------------------------------------
(* ColumnArray: accessors. *)

getData(c) == datas[columns[c].data]

getOffsets(c) == offs[columns[c].offsets]

size(c) == Len(getOffsets(c))

offsetAt(c, i) == IF i = 0 THEN 0 ELSE getOffsets(c)[i]

sizeAt(c, i) == IF i = 0 THEN getOffsets(c)[1] ELSE getOffsets(c)[i + 1] - getOffsets(c)[i]

\* The elements of row i (operator[] / get).
RowAt(c, i) == SubSeq(getData(c).elems, offsetAt(c, i) + 1, offsetAt(c, i) + sizeAt(c, i))

----------------------------------------------------------------------------
(* ColumnArray: the appending operations and popBack.  Each operator below *)
(* computes what the method leaves in the nested column and in the offsets *)
(* column; the actions further down store it through the column's handles. *)

\* getOffsets().push_back((getOffsets().size() == 0 ? 0 : getOffsets().back()) + n)
PushOffset(o, n) == Append(o, (IF Len(o) = 0 THEN 0 ELSE o[Len(o)]) + n)

\* insert: for (i < size) getData().insert(array[i])
RECURSIVE InsertLoop(_, _, _)
InsertLoop(d, array, i) ==
    IF i < Len(array) THEN InsertLoop(NestedInsert(d, array[i + 1]), array, i + 1) ELSE d

InsertResult(d, o, x) ==
    [status |-> "ok", data |-> InsertLoop(d, x, 0), offsets |-> PushOffset(o, Len(x)), ret |-> 0]

\* insertFrom(src_, n): copies the range [src.offsetAt(n), +src.sizeAt(n)) of src's nested column.
InsertFromResult(d, o, s, n) ==
    LET sz     == sizeAt(s, n)
        offset == offsetAt(s, n)
    IN  IF ~NestedRangeOk(getData(s), offset, sz)
        THEN [status |-> "PARAMETER_OUT_OF_BOUND", data |-> d, offsets |-> o, ret |-> 0]
        ELSE [status  |-> "ok",
              data    |-> NestedInsertRangeFrom(d, getData(s), offset, sz),
              offsets |-> PushOffset(o, sz),
              ret     |-> 0]

\* insertDefault: push_back(size() == 0 ? 0 : back())
InsertDefaultResult(d, o) ==
    [status |-> "ok", data |-> d, offsets |-> PushOffset(o, 0), ret |-> 0]

\* Mutant of InsertDataFits: the loop stops one field early.
InsertDataFitsStrict(pos, field_size, end) == pos + field_size < end

\* insertData: the condition of the slicing loop, pos + field_size <= end.
InsertDataFits(pos, field_size, end) == pos + field_size <= end

\* insertData: for (; pos + field_size <= end; pos += field_size, ++elems) data_->insertData(pos, field_size)
RECURSIVE InsertDataLoop(_, _, _, _)
InsertDataLoop(d, bytes, pos, elems) ==
    IF InsertDataFits(pos, sizeOfField(d), Len(bytes))
    THEN InsertDataLoop(NestedInsertData(d, SubSeq(bytes, pos + 1, pos + sizeOfField(d))),
                        bytes, pos + sizeOfField(d), elems + 1)
    ELSE [data |-> d, pos |-> pos, elems |-> elems]

\* insertData(pos, length)
InsertDataResult(d, o, bytes) ==
    IF ~isFixed(d)
    THEN [status |-> "NOT_IMPLEMENTED", data |-> d, offsets |-> o, ret |-> 0]
    ELSE LET r == InsertDataLoop(d, bytes, 0, 0)
         IN  IF r.pos # Len(bytes)
             THEN [status |-> "BAD_ARGUMENTS", data |-> r.data, offsets |-> o, ret |-> 0]
             ELSE [status |-> "ok", data |-> r.data, offsets |-> PushOffset(o, r.elems), ret |-> 0]

\* serializeValueIntoArena: values_size += getData().serializeValueIntoArena(offset + i, ...).size
RECURSIVE SerializeLoop(_, _, _, _)
SerializeLoop(d, offset, array_size, i) ==
    IF i < array_size
    THEN LET ref  == NestedSerialize(d, offset + i)
             rest == SerializeLoop(d, offset, array_size, i + 1)
         IN  [arena |-> ref \o rest.arena, values_size |-> Len(ref) + rest.values_size]
    ELSE [arena |-> <<>>, values_size |-> 0]

\* The count field: memcpy(pos, &array_size, sizeof(array_size)).
SerializeCount(array_size) == ToBytes(array_size, SizeofSizeT)

\* serializeValueIntoArena(n, arena, begin): the bytes written from begin on, and the
\* size of the returned StringRef(begin, sizeof(array_size) + values_size).
serializeValueIntoArena(c, n) ==
    LET array_size == sizeAt(c, n)
        offset     == offsetAt(c, n)
        values     == SerializeLoop(getData(c), offset, array_size, 0)
    IN  [arena |-> SerializeCount(array_size) \o values.arena,
         size  |-> SizeofSizeT + values.values_size]

\* Mutant of CompareSizes: rows of equal length and content ordered like a shorter one.
CompareSizesNoTie(lhs_size, rhs_size) == IF lhs_size <= rhs_size THEN -1 ELSE 1

\* compareAt: the result when no compared element differs.
CompareSizes(lhs_size, rhs_size) ==
    IF lhs_size < rhs_size THEN -1 ELSE IF lhs_size = rhs_size THEN 0 ELSE 1

\* compareAt: for (i < min_size) if (int res = getData().compareAt(...)) return res
RECURSIVE CompareLoop(_, _, _, _, _, _)
CompareLoop(c, n, m, rhs, hint, i) ==
    LET lhs_size == sizeAt(c, n)
        rhs_size == sizeAt(rhs, m)
    IN  IF i < Min(lhs_size, rhs_size)
        THEN LET res == NestedCompareAt(getData(c), offsetAt(c, n) + i,
                                        offsetAt(rhs, m) + i, getData(rhs), hint)
             IN  IF res # 0 THEN res ELSE CompareLoop(c, n, m, rhs, hint, i + 1)
        ELSE CompareSizes(lhs_size, rhs_size)

\* compareAt(n, m, rhs_, nan_direction_hint)
compareAt(c, n, m, rhs, hint) == CompareLoop(c, n, m, rhs, hint, 0)

\* PODArray::resize(n): n elements, the new ones not initialized (shown as -1).
PODResize(o, n) == [i \in 1..n |-> IF i <= Len(o) THEN o[i] ELSE -1]

\* PODArray::assign(from_begin, from_end): the array becomes the copied range.
PODAssign(o, range) == range

\* cloneResized: for (i = count; i < size; ++i) new_offsets[i] = new_offsets[i - 1].
\* A store at an index not below size() lands in the storage behind end() and leaves
\* the array as it is.
RECURSIVE CloneFillLoop(_, _, _)
CloneFillLoop(o, i, sz) ==
    IF i < sz
    THEN CloneFillLoop(IF i < Len(o) THEN [o EXCEPT ![i + 1] = o[i]] ELSE o, i + 1, sz)
    ELSE o

\* cloneResized: the number of elements copied, insertRangeFrom(getData(), 0, count).
CloneDataLength(from_offsets, count) == count

\* cloneResized(size): the nested column and the offsets of the new column.
CloneResizedResult(c, sz) ==
    LET empty == [status |-> "ok", data |-> NestedCloneEmpty(getData(c)), offsets |-> <<>>, ret |-> 0]
        count == Min(size(c), sz)
        from_offsets == getOffsets(c)
        new_offsets == CloneFillLoop(PODAssign(PODResize(<<>>, sz), SubSeq(from_offsets, 1, count)),
                                     count, sz)
        length == CloneDataLength(from_offsets, count)
    IN  IF sz > 0
        THEN IF ~NestedRangeOk(getData(c), 0, length)
             THEN [empty EXCEPT !.status = "PARAMETER_OUT_OF_BOUND"]
             ELSE [empty EXCEPT !.data = NestedInsertRangeFrom(empty.data, getData(c), 0, length),
                                !.offsets = new_offsets]
        ELSE empty

\* Mutant of ConvertedObject: the column returns itself.
ConvertedObjectThis(this, fresh) == this

\* convertToFullColumnIfConst: the object returned, std::make_shared<ColumnArray>(...).
ConvertedObject(this, fresh) == fresh

\* deserializeAndInsertFromArena: for (i < array_size) pos = getData().deserializeAndInsertFromArena(pos)
RECURSIVE DeserializeLoop(_, _, _, _, _)
DeserializeLoop(d, buf, pos, array_size, i) ==
    IF i < array_size
    THEN LET r == NestedDeserialize(d, buf, pos)
         IN  DeserializeLoop(r.d, buf, r.pos, array_size, i + 1)
    ELSE [d |-> d, pos |-> pos]

\* The count read back: *reinterpret_cast<const size_t *>(pos).
DeserializeCount(buf) == FromBytes(SubSeq(buf, 1, SizeofSizeT))

\* Mutant of DeserializeResult: the position returned is the one before the elements.
DeserializeResultStalePos(d, o, buf) ==
    LET array_size == DeserializeCount(buf)
        r          == DeserializeLoop(d, buf, SizeofSizeT, array_size, 0)
    IN  [status |-> "ok", data |-> r.d, offsets |-> PushOffset(o, array_size), ret |-> SizeofSizeT]

\* deserializeAndInsertFromArena(pos): ret is the returned position, as an index into buf.
DeserializeResult(d, o, buf) ==
    LET array_size == DeserializeCount(buf)
        r          == DeserializeLoop(d, buf, SizeofSizeT, array_size, 0)
    IN  [status |-> "ok", data |-> r.d, offsets |-> PushOffset(o, array_size), ret |-> r.pos]

\* Mutant of PopBackNestedN: the rows popped taken for the elements to pop.
PopBackNestedRows(o, n, back) == n

\* popBack: nested_n = offsets.back() - offsetAt(offsets.size() - n), back being the value read.
PopBackNestedN(o, n, back) == back - (IF Len(o) - n = 0 THEN 0 ELSE o[Len(o) - n])

\* popBack(n), given the value offsets.back() yields.
PopBackResult(d, o, n, back) ==
    LET nested_n == PopBackNestedN(o, n, back)
    IN  [status  |-> "ok",
         data    |-> IF nested_n # 0 THEN NestedPopBack(d, nested_n) ELSE d,
         offsets |-> SubSeq(o, 1, Len(o) - n),
         ret     |-> 0]

----------------------------------------------------------------------------
(* Construction. *)

\* The column built by inserting the given rows into an empty column, as
\* [data |-> nested column, offsets |-> offsets].
RECURSIVE BuildColumn(_, _, _, _)
BuildColumn(d, o, rows, i) ==
    IF i < Len(rows)
    THEN LET r == InsertResult(d, o, rows[i + 1])
         IN  BuildColumn(r.data, r.offsets, rows, i + 1)
    ELSE [data |-> d, offsets |-> o]

FromRows(kind, rows) == BuildColumn(EmptyNested(kind), <<>>, rows, 0)

\* explicit ColumnArray(ColumnPtr nested_column, ColumnPtr offsets_column): the
\* object keeps the two handles it is given.
ColumnArray(nested_column, offsets_column) == [data |-> nested_column, offsets |-> offsets_column]

\* The rows of the column that insertFrom and the arena bytes are taken from.
SrcRows(kind) ==
    IF kind = "Fixed"
    THEN << <<1, 2>>, <<>>, <<2>> >>
    ELSE << << <<97>>, <<>> >>, <<>>, << <<97>> >> >>

EmptyArena == [col |-> 0, n |-> 0, bytes |-> <<>>, size |-> 0]

NoCall == [op |-> "init", col |-> 0, arg |-> 0, status |-> "ok", ret |-> 0]

----------------------------------------------------------------------------
(* The mutating methods as actions on column object c. *)

\* No call has crashed the process or wrapped a nested column's size so far.
Usable(c) ==
    /\ c \in DOMAIN columns
    /\ last.status # "crash"
    /\ \A k \in DOMAIN datas : datas[k].under = 0

\* The model's cap: c may take one more row of k elements.
Room(c, k) == size(c) < MaxRows /\ Len(getData(c).elems) + k <= MaxNested

\* The method's effect, written through the handles c holds.
Commit(c, op, arg, r) ==
    /\ datas' = [datas EXCEPT ![columns[c].data] = r.data]
    /\ offs' = [offs EXCEPT ![columns[c].offsets] = r.offsets]
    /\ allocated' = IF r.offsets # <<>> THEN allocated \cup {columns[c].offsets} ELSE allocated
    /\ thrown' = (thrown \/ r.status # "ok")
    /\ last' = [op |-> op, col |-> c, arg |-> arg, status |-> r.status, ret |-> r.ret]
    /\ UNCHANGED <<columns, arena>>

insert(c, x) ==
    /\ Usable(c) /\ Room(c, Len(x))
    /\ Commit(c, "insert", x, InsertResult(getData(c), getOffsets(c), x))

insertFrom(c, s, n) ==
    /\ Usable(c) /\ s \in DOMAIN columns /\ s # c /\ n < size(s)
    /\ Room(c, sizeAt(s, n))
    /\ Commit(c, "insertFrom", n, InsertFromResult(getData(c), getOffsets(c), s, n))

insertDefault(c) ==
    /\ Usable(c) /\ Room(c, 0)
    /\ Commit(c, "insertDefault", 0, InsertDefaultResult(getData(c), getOffsets(c)))

insertData(c, bytes) ==
    /\ Usable(c) /\ Room(c, Len(bytes) \div FieldSize)
    /\ Commit(c, "insertData", bytes, InsertDataResult(getData(c), getOffsets(c), bytes))

deserializeAndInsertFromArena(c, buf) ==
    /\ Usable(c) /\ Room(c, DeserializeCount(buf))
    /\ Commit(c, "deserializeAndInsertFromArena", buf,
              DeserializeResult(getData(c), getOffsets(c), buf))

\* popBack(n), n <= size().  On a column without rows offsets.back() reads the word
\* before the end of an empty array: with no storage allocated that is an access
\* through a null pointer and the process dies; with storage allocated it is the word
\* before the storage, which holds some value or cannot be read.
popBack(c, n) ==
    /\ Usable(c) /\ n <= size(c)
    /\ \/ /\ size(c) > 0
          /\ Commit(c, "popBack", n,
                    PopBackResult(getData(c), getOffsets(c), n, getOffsets(c)[size(c)]))
       \/ /\ size(c) = 0 /\ columns[c].offsets \in allocated
          /\ \E g \in Garbage :
                Commit(c, "popBack", n, PopBackResult(getData(c), getOffsets(c), n, g))
       \/ /\ size(c) = 0
          /\ last' = [op |-> "popBack", col |-> c, arg |-> n, status |-> "crash", ret |-> 0]
          /\ UNCHANGED <<columns, datas, offs, allocated, thrown, arena>>

\* The next free handle of a heap.
Fresh(heap) == Len(heap) + 1

\* serializeValueIntoArena(n, arena, begin) on c.
CallSerialize(c, n) ==
    /\ Usable(c) /\ n < size(c)
    /\ LET r == serializeValueIntoArena(c, n)
       IN  /\ arena' = [col |-> c, n |-> n, bytes |-> r.arena, size |-> r.size]
           /\ last' = [op |-> "serializeValueIntoArena", col |-> c, arg |-> n,
                       status |-> "ok", ret |-> r.size]
    /\ UNCHANGED <<columns, datas, offs, allocated, thrown>>

\* compareAt(n, m, rhs, nan_direction_hint) on c.
CallCompareAt(c, n, m, rhs, hint) ==
    /\ Usable(c) /\ rhs \in DOMAIN columns /\ n < size(c) /\ m < size(rhs)
    /\ last' = [op |-> "compareAt", col |-> c,
                arg |-> [n |-> n, m |-> m, rhs |-> rhs, hint |-> hint],
                status |-> "ok", ret |-> compareAt(c, n, m, rhs, hint)]
    /\ UNCHANGED <<columns, datas, offs, allocated, thrown, arena>>

\* cloneResized(size) on c: a new column object over a new nested column and new
\* offsets, unless copying the elements throws.
CallCloneResized(c, sz) ==
    /\ Usable(c) /\ Len(columns) < MaxColumns
    /\ LET r == CloneResizedResult(c, sz)
       IN  IF r.status = "ok"
           THEN /\ columns' = Append(columns, ColumnArray(Fresh(datas), Fresh(offs)))
                /\ datas' = Append(datas, r.data)
                /\ offs' = Append(offs, r.offsets)
                /\ allocated' = IF sz > 0 THEN allocated \cup {Fresh(offs)} ELSE allocated
                /\ last' = [op |-> "cloneResized", col |-> c, arg |-> sz,
                            status |-> "ok", ret |-> Fresh(columns)]
                /\ UNCHANGED <<thrown, arena>>
           ELSE /\ thrown' = TRUE
                /\ last' = [op |-> "cloneResized", col |-> c, arg |-> sz,
                            status |-> r.status, ret |-> 0]
                /\ UNCHANGED <<columns, datas, offs, allocated, arena>>

\* convertToFullColumnIfConst() on c.  The offsets are a ColumnVector, which is never
\* constant, so new_offsets = offsets; new_data is the materialized nested column when
\* that is constant and data otherwise.
CallConvertToFullColumnIfConst(c) ==
    /\ Usable(c) /\ Len(columns) < MaxColumns
    /\ LET const       == isConst(getData(c))
           new_data    == IF const THEN Fresh(datas) ELSE columns[c].data
           new_offsets == columns[c].offsets
           res         == ConvertedObject(c, Fresh(columns))
       IN  /\ datas' = IF const THEN Append(datas, NestedConvertToFull(getData(c))) ELSE datas
           /\ columns' = IF res = Fresh(columns)
                         THEN Append(columns, ColumnArray(new_data, new_offsets))
                         ELSE columns
           /\ last' = [op |-> "convertToFullColumnIfConst", col |-> c, arg |-> 0,
                       status |-> "ok", ret |-> res]
    /\ UNCHANGED <<offs, allocated, thrown, arena>>

\* Any of the mutating methods on c, with s the column that rows are taken from.
Mutate(c, s) ==
    \/ \E x \in SeqsUpTo(ValuesOf(getData(c).kind), MaxRowLen) : insert(c, x)
    \/ \E n \in 0..(MaxRows - 1) : insertFrom(c, s, n)
    \/ insertDefault(c)
    \/ \E bytes \in Buffers : insertData(c, bytes)
    \/ \E n \in 0..(size(s) - 1) :
          deserializeAndInsertFromArena(c, serializeValueIntoArena(s, n).arena)
    \/ \E n \in 0..MaxRows : popBack(c, n)

----------------------------------------------------------------------------
(* Spec: one column that exclusively owns its nested column and offsets,   *)
(* empty at first, and a second column that rows are copied from.          *)

Init ==
    \E kind \in Kinds :
        LET src == FromRows(kind, SrcRows(kind))
        IN  /\ columns = <<ColumnArray(1, 1), ColumnArray(2, 2)>>
            /\ datas = <<EmptyNested(kind), src.data>>
            /\ offs = << <<>>, src.offsets >>
            /\ allocated = {2}
            /\ thrown = FALSE
            /\ arena = EmptyArena
            /\ last = NoCall

Next == Mutate(1, 2)

Spec == Init /\ [][Next]_vars

----------------------------------------------------------------------------
(* SpecShared: two columns constructed over the same offsets handle, as the *)
(* columns of a nested data structure are, each with a nested column of its *)
(* own, and a third column that rows are copied from.                       *)

InitShared ==
    \E kind \in Kinds :
        LET src == FromRows(kind, SrcRows(kind))
        IN  /\ columns = <<ColumnArray(1, 1), ColumnArray(2, 1), ColumnArray(3, 2)>>
            /\ datas = <<EmptyNested(kind), EmptyNested(kind), src.data>>
            /\ offs = << <<>>, src.offsets >>
            /\ allocated = {2}
            /\ thrown = FALSE
            /\ arena = EmptyArena
            /\ last = NoCall

\* The mutating calls are made on column 1 (A); column 2 (B) is only looked at.
NextShared == Mutate(1, 3)

SpecShared == InitShared /\ [][NextShared]_vars

----------------------------------------------------------------------------
(* The specifications of the read-only methods draw their columns in Init. *)

\* The column holding the given rows of a constant nested column.
RECURSIVE Flatten(_)
Flatten(rows) == IF rows = <<>> THEN <<>> ELSE Head(rows) \o Flatten(Tail(rows))

RECURSIVE Cumulative(_, _)
Cumulative(rows, base) ==
    IF rows = <<>> THEN <<>>
    ELSE <<base + Len(Head(rows))>> \o Cumulative(Tail(rows), base + Len(Head(rows)))

ColumnOfRows(kind, rows) ==
    IF kind = "Const"
    THEN [data |-> [kind |-> kind, elems |-> Flatten(rows), under |-> 0],
          offsets |-> Cumulative(rows, 0)]
    ELSE FromRows(kind, rows)

\* Column 1 holds up to MaxInRows rows of up to MaxRowLen elements; column 2 is a
\* freshly constructed empty column of the same nested type.
InitInput(kinds) ==
    \E kind \in kinds :
        \E rows \in SeqsUpTo(SeqsUpTo(ValuesOf(kind), MaxRowLen), MaxInRows) :
            LET in == ColumnOfRows(kind, rows)
            IN  /\ columns = <<ColumnArray(1, 1), ColumnArray(2, 2)>>
                /\ datas = <<in.data, EmptyNested(kind)>>
                /\ offs = <<in.offsets, <<>> >>
                /\ allocated = IF rows = <<>> THEN {} ELSE {1}
                /\ thrown = FALSE
                /\ arena = EmptyArena
                /\ last = NoCall

(* SpecArena: rows of column 1 are serialized into the arena, and the bytes *)
(* deserialized into the empty column 2.                                    *)
InitArena == InitInput(Kinds)

NextArena ==
    \/ \E n \in 0..(MaxInRows - 1) : CallSerialize(1, n)
    \/ /\ arena.col = 1 /\ size(2) = 0
       /\ deserializeAndInsertFromArena(2, arena.bytes)

SpecArena == InitArena /\ [][NextArena]_vars

(* SpecClone: cloneResized on column 1. *)
InitClone == InitInput(Kinds)

NextClone == \E sz \in 0..MaxCloneSize : CallCloneResized(1, sz)

SpecClone == InitClone /\ [][NextClone]_vars

(* SpecConst: convertToFullColumnIfConst on any column, column 1 being of a *)
(* fixed-width, a string or a constant nested column.                       *)
InitConst == InitInput(Kinds \cup {"Const"})

NextConst == \E c \in 1..MaxColumns : CallConvertToFullColumnIfConst(c)

SpecConst == InitConst /\ [][NextConst]_vars

(* SpecCompare: rows of column 1 are compared with rows of column 2. *)
CmpValuesOf(kind) == IF kind = "Fixed" THEN CmpValues ELSE CmpStrValues

InitCompare ==
    \E kind \in Kinds :
        \E a, b \in SeqsUpTo(CmpValuesOf(kind), MaxCmpLen) :
            LET v   == IF kind = "Fixed" THEN 2 ELSE <<97>>
                lhs == FromRows(kind, << <<v>>, a >>)
                rhs == FromRows(kind, << b, <<>> >>)
            IN  /\ columns = <<ColumnArray(1, 1), ColumnArray(2, 2)>>
                /\ datas = <<lhs.data, rhs.data>>
                /\ offs = <<lhs.offsets, rhs.offsets>>
                /\ allocated = {1, 2}
                /\ thrown = FALSE
                /\ arena = EmptyArena
                /\ last = NoCall

NextCompare == \E n, m \in 0..1 : \E hint \in {-1, 1} : CallCompareAt(1, n, m, 2, hint)

SpecCompare == InitCompare /\ [][NextCompare]_vars

----------------------------------------------------------------------------
(* What the claims speak of. *)

NonDecreasing(o) == \A i \in 1..(Len(o) - 1) : o[i] <= o[i + 1]

LastOffset(o) == IF Len(o) = 0 THEN 0 ELSE o[Len(o)]

\* The sum of sizeAt(k) over the rows k < i.
RECURSIVE SumSizes(_, _)
SumSizes(c, i) == IF i = 0 THEN 0 ELSE SumSizes(c, i - 1) + sizeAt(c, i - 1)

\* The invariant of the data model: offsets non-decreasing, the last one (0 without
\* rows) the length of the nested column.
StructurallyValid(c) ==
    /\ NonDecreasing(getOffsets(c))
    /\ LastOffset(getOffsets(c)) = NestedSize(getData(c))

\* The elements insertData is meant to append: bytes cut into fields of width w.
Fields(bytes, w) ==
    [k \in 1..(Len(bytes) \div w) |-> FromBytes(SubSeq(bytes, (k - 1) * w + 1, k * w))]

----------------------------------------------------------------------------
(* Claims about the mutating methods, checked under Spec. *)

\* C1: on a column that owns its offsets and starts empty, after any sequence of
\* calls of insert, insertFrom, insertDefault, insertData,
\* deserializeAndInsertFromArena and popBack(n), n <= size(), that all returned
\* without an exception, the offsets are non-decreasing, the last offset (0 without
\* rows) is the length of the nested column, and the row sizes sum up to it.
C1_OffsetsInvariant ==
    (~thrown /\ last.status = "ok") =>
        /\ StructurallyValid(1)
        /\ SumSizes(1, size(1)) = NestedSize(getData(1))

\* C2: popBack(n) on a column of R >= 1 rows, n <= R, leaves R - n rows, leaves the
\* rows below R - n as they were, and shrinks the nested column by exactly
\* last_offset - offsetAt(R - n) elements, taken from its end.
C2_PopBackRemovesLastRows ==
    [][ LET R == size(1)
            n == last'.arg
            o == getOffsets(1)
            e == getData(1).elems
        IN  (last'.op = "popBack" /\ last'.status = "ok" /\ R >= 1) =>
                /\ size(1)' = R - n
                /\ \A i \in 0..(R - n - 1) : RowAt(1, i)' = RowAt(1, i)
                /\ NestedSize(getData(1))' = Len(e) - (o[R] - offsetAt(1, R - n))
                /\ getData(1)'.under = 0
                /\ getData(1)'.elems = SubSeq(e, 1, Len(getData(1)'.elems))
                /\ getOffsets(1)' = SubSeq(o, 1, R - n) ]_vars

\* C2 witness: popBack(1) has taken the last row off a column of rows [1,2], [] and
\* one more, leaving nested [1,2] and offsets [2,2].
C2_Witness ==
    /\ last.op = "popBack" /\ last.arg = 1 /\ last.status = "ok"
    /\ getData(1).kind = "Fixed"
    /\ getData(1).elems = <<1, 2>>
    /\ getOffsets(1) = <<2, 2>>

\* C3: insert(x), insertFrom(src, n) with n < src.size() and insertDefault() add
\* exactly one row, leave the rows 0..R-1 as they were, and make row R the appended
\* content: the elements of x, the elements of row n of src, or no element.
C3_AppendAddsOneRow ==
    [][ \A R \in {size(1)} :
            (last'.op \in {"insert", "insertFrom", "insertDefault"} /\ last'.status = "ok") =>
                /\ size(1)' = R + 1
                /\ \A i \in 0..(R - 1) : RowAt(1, i)' = RowAt(1, i)
                /\ last'.op = "insert" => RowAt(1, R)' = last'.arg
                /\ last'.op = "insertFrom" => RowAt(1, R)' = RowAt(2, last'.arg)
                /\ last'.op = "insertDefault" => RowAt(1, R)' = <<>>
                /\ (last'.op = "insertDefault" /\ R = 0) => getOffsets(1)' = <<0>>
                /\ (last'.op = "insertDefault" /\ getOffsets(1) = <<0>>) =>
                        getOffsets(1)' = <<0, 0>> ]_vars

\* C7: insertData(bytes, length) on a nested column of fixed width w returns
\* normally exactly when length is a multiple of w, and then has appended the
\* length/w fields of the buffer to the nested column and one offset covering that
\* count; otherwise it throws BAD_ARGUMENTS; on a nested column that is not of fixed
\* width it throws NOT_IMPLEMENTED and changes neither the nested column nor the
\* offsets.
C7_InsertData ==
    [][ LET bytes == last'.arg
            d     == getData(1)
            o     == getOffsets(1)
            w     == sizeOfField(d)
        IN  last'.op = "insertData" =>
                /\ (last'.status = "ok") <=> (isFixed(d) /\ Len(bytes) % w = 0)
                /\ (last'.status = "BAD_ARGUMENTS") <=> (isFixed(d) /\ Len(bytes) % w # 0)
                /\ (last'.status = "NOT_IMPLEMENTED") <=> ~isFixed(d)
                /\ last'.status = "ok" =>
                        /\ getData(1)'.elems = d.elems \o Fields(bytes, w)
                        /\ getOffsets(1)' = Append(o, LastOffset(o) + Len(bytes) \div w)
                        /\ \A R \in {size(1)} : sizeAt(1, R)' = Len(bytes) \div w
                /\ last'.status = "NOT_IMPLEMENTED" =>
                        /\ getData(1)' = d
                        /\ getOffsets(1)' = o ]_vars

\* C7 witness: a buffer of two fields was appended as one row of two elements.
C7_Witness ==
    /\ last.op = "insertData" /\ last.status = "ok"
    /\ Len(last.arg) = 2 * FieldSize
    /\ size(1) = 2
    /\ sizeAt(1, 1) = 2

\* C8: after insertData has thrown BAD_ARGUMENTS on a column that satisfied the
\* invariant of the data model, the column still satisfies it.
C8_FailedInsertDataKeepsInvariant ==
    [][ (StructurallyValid(1) /\ last'.op = "insertData" /\ last'.status = "BAD_ARGUMENTS")
            => StructurallyValid(1)' ]_vars

----------------------------------------------------------------------------
(* Claims about shared offsets, checked under SpecShared. *)

\* C4: with A and B constructed over one offsets handle, a mutating call on A either
\* is rejected or leaves B's last offset equal to the length of B's nested column.
C4_SiblingNotCorrupted ==
    (last.op # "init" /\ last.status = "ok") =>
        LastOffset(getOffsets(2)) = NestedSize(getData(2))

----------------------------------------------------------------------------
(* Claims about the arena round trip, checked under SpecArena. *)

\* The serialized form of one element of a nested column of the given kind.
ElemBytes(kind, v) == NestedSerialize([kind |-> kind, elems |-> <<v>>, under |-> 0], 0)

RECURSIVE RowBytes(_, _)
RowBytes(kind, row) ==
    IF row = <<>> THEN <<>> ELSE ElemBytes(kind, Head(row)) \o RowBytes(kind, Tail(row))

\* C5: deserializeAndInsertFromArena on a freshly empty column, given the bytes that
\* serializeValueIntoArena(i, arena) wrote for row i, appends one row equal to row i
\* and returns the position just past those bytes, which are the count field followed
\* by the serialized elements.
C5_RoundTrip ==
    last.op = "deserializeAndInsertFromArena" =>
        LET row  == RowAt(1, arena.n)
            kind == getData(1).kind
        IN  /\ last.status = "ok"
            /\ last.ret = Len(arena.bytes)
            /\ arena.size = Len(arena.bytes)
            /\ arena.bytes = ToBytes(Len(row), SizeofSizeT) \o RowBytes(kind, row)
            /\ size(2) = 1
            /\ NestedSize(getData(2)) = Len(row)
            /\ RowAt(2, 0) = row

\* C5 witness: the second row of column 1, of two elements, has made the round trip.
C5_Witness ==
    /\ last.op = "deserializeAndInsertFromArena"
    /\ arena.n = 1
    /\ size(2) = 1
    /\ sizeAt(2, 0) = 2

----------------------------------------------------------------------------
(* Claims about compareAt, checked under SpecCompare. *)

\* The nested comparator applied to two element values.
ElemCmp(kind, x, y, hint) ==
    NestedCompareAt([kind |-> kind, elems |-> <<x>>, under |-> 0], 0, 0,
                    [kind |-> kind, elems |-> <<y>>, under |-> 0], hint)

\* C6: compareAt(n, m, rhs, hint) is the nested comparator's result at the first
\* position, below the shorter row's length, where the rows differ, and otherwise
\* -1, 0 or 1 as row n is shorter than, as long as or longer than row m of rhs; it is
\* antisymmetric; [1,2] < [1,2,3] and [1,3] > [1,2,3].
C6_CompareAtLexicographic ==
    last.op = "compareAt" =>
        LET n    == last.arg.n
            m    == last.arg.m
            rhs  == last.arg.rhs
            hint == last.arg.hint
            kind == getData(last.col).kind
            a    == RowAt(last.col, n)
            b    == RowAt(rhs, m)
            differ == {k \in 1..Min(Len(a), Len(b)) : ElemCmp(kind, a[k], b[k], hint) # 0}
        IN  /\ differ # {} =>
                \E k \in differ :
                    /\ \A j \in differ : k <= j
                    /\ last.ret = ElemCmp(kind, a[k], b[k], hint)
            /\ (differ = {} /\ Len(a) < Len(b)) => last.ret = -1
            /\ (differ = {} /\ Len(a) = Len(b)) => last.ret = 0
            /\ (differ = {} /\ Len(a) > Len(b)) => last.ret = 1
            /\ last.ret = 0 - compareAt(rhs, m, n, last.col, hint)
            /\ (kind = "Fixed" /\ a = <<1, 2>> /\ b = <<1, 2, 3>>) => last.ret < 0
            /\ (kind = "Fixed" /\ a = <<1, 3>> /\ b = <<1, 2, 3>>) => last.ret > 0

\* C6 witness: row [1,2] has been compared with row [1,2,3] and found less.
C6_Witness ==
    /\ last.op = "compareAt"
    /\ getData(1).kind = "Fixed"
    /\ RowAt(1, last.arg.n) = <<1, 2>>
    /\ RowAt(2, last.arg.m) = <<1, 2, 3>>
    /\ last.ret = -1

----------------------------------------------------------------------------
(* Claims about convertToFullColumnIfConst, checked under SpecConst. *)

\* The rows of column c, in order.
Rows(c) == [i \in 1..size(c) |-> RowAt(c, i - 1)]

----------------------------------------------------------------------------
(* Claims about cloneResized, checked under SpecClone. *)

\* C10: cloneResized(size) on a column of R rows that satisfies the invariant returns
\* a new column of exactly size rows, the first min(size, R) of them the original's,
\* the others empty, whose nested column holds as many elements as its last offset.
C10_CloneResized ==
    last.op = "cloneResized" =>
        /\ last.status = "ok"
        /\ last.ret # last.col
        /\ size(last.ret) = last.arg
        /\ LastOffset(getOffsets(last.ret)) = NestedSize(getData(last.ret))
        /\ \A i \in 0..(Min(last.arg, size(last.col)) - 1) :
                RowAt(last.ret, i) = RowAt(last.col, i)
        /\ \A i \in Min(last.arg, size(last.col))..(last.arg - 1) : sizeAt(last.ret, i) = 0

====
